---- MODULE Spec2Model ----
(***************************************************************************)
(* The segmentation-and-shipping pipeline of api/engine.py: one job of     *)
(* run_fly_process with its worker thread (run_packager), the thread-safe  *)
(* handoff to the event loop, the conveyor queue, run_shipper and its      *)
(* ship_cargo tasks, the heartbeat and the event queue fed by              *)
(* log_dispatch.                                                           *)
(***************************************************************************)
EXTENDS Integers, Sequences, FiniteSets, TLC

\* ------------------------------------------------------------------------
\* Bounds of the model
\* ------------------------------------------------------------------------
MaxPackets == 2
MaxTicks == 1
TimeBaseDen == 2
MaxStderrLines == 1

\* ------------------------------------------------------------------------
\* Program constants
\* ------------------------------------------------------------------------
BUFFER_TAIL == 600
BalancedSlack == 30
DefaultSplitDuration == 30

\* Inputs the jobs of Spec are drawn from (seconds, minutes).
SplitDurations == {0, 5}
TotalDurations == {0, 600}
DeltaSecs == {200, 900}
FirstSecs == {100}
PtsLags == {1}

\* The 70-minute scenario of Spec70.
SourceSpan == 70 * 60
ScenarioSteps == {300, 600}

NoBox == 0 - 1

\* ------------------------------------------------------------------------
\* State
\* ------------------------------------------------------------------------
VARIABLES
  \* job parameters (arguments of run_fly_process) and the media source
  mode, cookies, total_duration, split_duration, only_list_formats, feed,
  \* ctx.provider and the JSON bodies the provider answers an upload with
  provider, bodies,
  \* a second run_fly_process job running at the same time (its credentials file)
  peer,
  \* orchestrator (run_fly_process), heartbeat, credentials file, event queue
  opc, hb, ticks, cookie_file, log_q,
  \* worker thread (run_packager / run_format_listing)
  ppc, target_split, threshold, child, in_container, buffer, box_id, pos,
  demuxed, sealed, ended,
  \* thread-safe submissions in flight and the conveyor queue
  submitted, conveyor,
  \* run_shipper and its ship_cargo tasks
  spc, dequeued, tasks, active_shipments

paramVars == <<mode, cookies, total_duration, split_duration, only_list_formats, feed,
               provider, bodies>>
jobVars == <<paramVars, peer>>
orchVars == <<opc, hb, ticks, cookie_file>>
pkgVars == <<ppc, target_split, threshold, child, in_container, buffer, box_id,
             pos, demuxed, sealed, ended>>
beltVars == <<submitted, conveyor>>
shipVars == <<spc, dequeued, tasks, active_shipments>>
vars == <<jobVars, orchVars, log_q, pkgVars, beltVars, shipVars>>

\* ------------------------------------------------------------------------
\* Durations: exact rationals n/d seconds, or infinity
\* ------------------------------------------------------------------------
Dur(n, d) == [n |-> n, d |-> d, inf |-> FALSE]
DurInf == [n |-> 0, d |-> 1, inf |-> TRUE]

\* math.ceil(a / b) for integers a, b with b # 0
CeilDiv(a, b) == IF b > 0 THEN 0 - ((0 - a) \div b) ELSE 0 - (a \div (0 - b))

\* rel_time <= max_dur
RelTimeAtMost(dts, base_dts, max_dur) ==
  max_dur.inf \/ (dts - base_dts) * max_dur.d <= max_dur.n * TimeBaseDen

\* float(x.dts - base) * time_base < max_dur, time_base = 1/TimeBaseDen
RelTimeLess(dts, base_dts, max_dur) ==
  max_dur.inf \/ (dts - base_dts) * max_dur.d < max_dur.n * TimeBaseDen

\* curr_dur >= threshold
CurrDurReached(dts, first_dts, thr) ==
  (dts - first_dts) * thr.d >= thr.n * TimeBaseDen

\* ------------------------------------------------------------------------
\* Split policy of run_packager
\* ------------------------------------------------------------------------
BaseSplitSeconds(sd) == sd * 60

FixedThresholdNoTail(base) == Dur(base, 1)

FixedThreshold(base) == Dur(base + BUFFER_TAIL, 1)

\* math.floor in place of math.ceil
NumPartsFloor(td, base) == td \div base

NumParts(td, base) == CeilDiv(td, base)

Balanced(td, base) == td > 0 /\ NumParts(td, base) > 0

\* the tail added to the cap of a chunk as well
TargetSplitWithTail(td, sd) ==
  LET base == BaseSplitSeconds(sd) IN
  IF Balanced(td, base) THEN Dur(td, NumParts(td, base)) ELSE Dur(base + BUFFER_TAIL, 1)

TargetSplit(td, sd) ==
  LET base == BaseSplitSeconds(sd) IN
  IF Balanced(td, base) THEN Dur(td, NumParts(td, base)) ELSE Dur(base, 1)

BalancedThreshold(td, parts) == Dur(td + BalancedSlack * parts, parts)

Threshold(td, sd) ==
  LET base == BaseSplitSeconds(sd) IN
  IF Balanced(td, base) THEN BalancedThreshold(td, NumParts(td, base))
  ELSE FixedThreshold(base)

\* total_duration / base_split_seconds raises ZeroDivisionError
SplitRaises(td, sd) == td > 0 /\ BaseSplitSeconds(sd) = 0

\* ------------------------------------------------------------------------
\* create_package
\* ------------------------------------------------------------------------
RebaseKeepsOriginal(v, base) == v

Rebase(v, base) == v - base

\* number of packets muxed before the loop breaks, from position i
RECURSIVE MuxCount(_, _, _, _)
MuxCount(packets, i, base_dts, max_dur) ==
  IF i > Len(packets) THEN 0
  ELSE IF RelTimeLess(packets[i].dts, base_dts, max_dur)
       THEN 1 + MuxCount(packets, i + 1, base_dts, max_dur)
       ELSE 0

\* the number of muxed packets in place of the index of the last one
CutoffIdxCount(muxed) == muxed

\* cutoff_idx as the code leaves it (0-based): the last muxed index, 0 if none
CutoffIdx(muxed) == IF muxed = 0 THEN 0 ELSE muxed - 1

CreatePackage(packets, max_dur) ==
  LET base_dts == packets[1].dts
      base_pts == packets[1].pts
      n == MuxCount(packets, 1, base_dts, max_dur)
  IN [mem |-> [i \in 1..n |->
                 [id |-> packets[i].id,
                  dts |-> Rebase(packets[i].dts, base_dts),
                  pts |-> Rebase(packets[i].pts, base_pts),
                  odts |-> packets[i].dts,
                  opts |-> packets[i].pts]],
      cutoff |-> CutoffIdx(n),
      size |-> n,
      \* the list passed in, whose muxed packets were rewritten in place
      packets |-> [i \in 1..Len(packets) |->
                     IF i <= n
                     THEN [id |-> packets[i].id,
                           dts |-> Rebase(packets[i].dts, base_dts),
                           pts |-> Rebase(packets[i].pts, base_pts)]
                     ELSE packets[i]]]

\* buffer[cutoff :]
CarryOverFromCutoff(buf, cutoff) == SubSeq(buf, cutoff + 1, Len(buf))

\* buffer[cutoff + 1 :]
CarryOver(buf, cutoff) == SubSeq(buf, cutoff + 2, Len(buf))

NextBoxIdStuck(id) == id

NextBoxId(id) == id + 1

\* ------------------------------------------------------------------------
\* Queue items
\* ------------------------------------------------------------------------
Cargo(mem, index, size) == [kind |-> "cargo", index |-> index, mem |-> mem, size |-> size]
NoneItem == [kind |-> "none", index |-> NoBox, mem |-> <<>>, size |-> 0]

\* ------------------------------------------------------------------------
\* log_dispatch: the lines one event puts on the event queue
\* ------------------------------------------------------------------------
Line(fmt, kind, tag, task, box) ==
  [fmt |-> fmt, kind |-> kind, tag |-> tag, task |-> task, box |-> box]

ClosingSentinel == Line("none", "none", "none", NoBox, NoBox)

JsonKindsWithStatus == {"asset", "error", "keepalive", "status"}

JsonKinds == {"asset", "error", "keepalive"}

\* the JSON line put before the text line
LogDispatchJsonFirst(q, m, kind, tag, has_text, has_payload, task, box) ==
  IF m = "data"
  THEN IF kind \in JsonKinds THEN Append(q, Line("json", kind, tag, task, box)) ELSE q
  ELSE LET q1 == IF kind \in JsonKinds \/ has_payload
                 THEN Append(q, Line("json", kind, tag, task, box)) ELSE q
       IN IF has_text THEN Append(q1, Line("text", kind, tag, task, box)) ELSE q1

\* m: ctx.mode; has_text / has_payload: whether text and payload were passed
LogDispatch(q, m, kind, tag, has_text, has_payload, task, box) ==
  IF m = "data"
  THEN IF kind \in JsonKinds THEN Append(q, Line("json", kind, tag, task, box)) ELSE q
  ELSE LET q1 == IF has_text THEN Append(q, Line("text", kind, tag, task, box)) ELSE q
       IN IF kind \in JsonKinds \/ has_payload
          THEN Append(q1, Line("json", kind, tag, task, box))
          ELSE q1

Status(q, tag) == LogDispatch(q, mode, "status", tag, TRUE, FALSE, NoBox, NoBox)


\* ------------------------------------------------------------------------
\* Initial state: run_fly_process has been called, nothing has run yet
\* ------------------------------------------------------------------------
Ticks(secs) == {x * TimeBaseDen : x \in secs}

AnyFeed ==
  [deltas |-> Ticks(DeltaSecs), firsts |-> Ticks(FirstSecs), lags |-> PtsLags,
   nones |-> TRUE, anyEnd |-> TRUE, ends |-> {}, max |-> MaxPackets]

ScenarioFeed(step, last) ==
  [deltas |-> Ticks({step}), firsts |-> {0}, lags |-> {0},
   nones |-> FALSE, anyEnd |-> FALSE, ends |-> Ticks({last}),
   max |-> (SourceSpan \div step) + 1]

\* the child process, its pipes, and the stderr monitor thread (monitor: the
\* thread was started; stderr_lines: lines it has read so far; pending: the
\* line it has read and not yet handled)
NoChild ==
  [st |-> "none", stdout_closed |-> FALSE, stderr_closed |-> FALSE,
   terminated |-> FALSE, killed |-> FALSE, monitor |-> FALSE, stderr_lines |-> 0,
   pending |-> "none"]

\* absent key / empty string in a response body
Absent == "<absent>"
Empty == ""

Body(upload_url, asset_id, asset, id) ==
  [upload_url |-> upload_url, asset_id |-> asset_id, asset |-> asset, id |-> id]

NoBody == Body(Absent, Absent, Absent, Absent)

\* the answer of the AssemblyAI upload endpoint
UploadBody == Body("https://cdn.assemblyai.com/upload/u1", Absent, Absent, Absent)

AssetBodies ==
  {Body(u, a, b, c) :
     u \in {Absent, "https://cdn.assemblyai.com/upload/u1"},
     a \in {Absent, Empty, "a1"}, b \in {Absent, "a2"}, c \in {Absent, "a3"}}

Providers == {"assemblyai", "deepgram", "other"}

NoPeer == [st |-> "none", same_name |-> FALSE, file |-> FALSE]

OneProvider == provider = "assemblyai" /\ bodies = {UploadBody}

InitRun ==
  /\ peer = NoPeer
  /\ opc = "init" /\ hb = "none" /\ ticks = 0 /\ cookie_file = FALSE
  /\ log_q = <<>>
  /\ ppc = "idle" /\ target_split = Dur(0, 1) /\ threshold = Dur(0, 1)
  /\ child = NoChild /\ in_container = "none" /\ buffer = <<>> /\ box_id = 0
  /\ pos = [n |-> 0, last |-> 0, any |-> FALSE]
  /\ demuxed = <<>> /\ sealed = <<>> /\ ended = "no"
  /\ submitted = <<>> /\ conveyor = <<>>
  /\ spc = "none" /\ dequeued = <<>> /\ tasks = <<>> /\ active_shipments = <<>>

Init ==
  /\ mode \in {"debug", "data"}
  /\ cookies \in BOOLEAN
  /\ total_duration \in TotalDurations
  /\ split_duration \in SplitDurations
  /\ only_list_formats \in BOOLEAN
  /\ feed = AnyFeed
  /\ OneProvider
  /\ InitRun

\* ------------------------------------------------------------------------
\* run_fly_process
\* ------------------------------------------------------------------------
\* writing the credentials file may fail silently (try / except: pass)
WriteOutcomes == IF cookies THEN BOOLEAN ELSE {FALSE}

FlyStart ==
  /\ opc = "init"
  /\ \E written \in WriteOutcomes : cookie_file' = (cookie_file \/ written)
  /\ log_q' = Status(log_q, "started")
  /\ hb' = "running"
  /\ IF only_list_formats
     THEN /\ ppc' = "listing" /\ opc' = "await_listing" /\ spc' = spc
     ELSE /\ ppc' = "start" /\ opc' = "await_packager" /\ spc' = "created"
  /\ UNCHANGED <<jobVars, ticks, target_split, threshold, child, in_container,
                 buffer, box_id, pos, demuxed, sealed, ended, beltVars,
                 dequeued, tasks, active_shipments>>

\* hb_task.cancel(); os.remove(cookie_filename); log_queue.put_nowait(None)
Terminal(q, remove_raises) ==
  /\ hb' = "cancelled"
  /\ IF remove_raises
     THEN /\ cookie_file' = cookie_file /\ log_q' = q /\ opc' = "raised"
     ELSE /\ cookie_file' = FALSE /\ log_q' = Append(q, ClosingSentinel)
          /\ opc' = "terminal"

RemoveOutcomes == IF cookie_file THEN BOOLEAN ELSE {FALSE}

\* the await of run_in_executor returns, or re-raises what the worker raised
FlyAfterPackager ==
  /\ opc = "await_packager"
  /\ ppc \in {"done", "raised"}
  /\ opc' = IF ppc = "raised" THEN "raised" ELSE "await_shipper"
  /\ UNCHANGED <<jobVars, hb, ticks, cookie_file, log_q, pkgVars, beltVars, shipVars>>

FlyFinish ==
  /\ opc = "await_shipper"
  /\ spc = "done"
  /\ \E remove_raises \in RemoveOutcomes :
       Terminal(Status(log_q, "complete"), remove_raises)
  /\ UNCHANGED <<jobVars, ticks, pkgVars, beltVars, shipVars>>

FlyListingDone ==
  /\ opc = "await_listing"
  /\ ppc = "listed"
  /\ \E remove_raises \in RemoveOutcomes :
       Terminal(Status(log_q, "listing_done"), remove_raises)
  /\ UNCHANGED <<jobVars, ticks, pkgVars, beltVars, shipVars>>

\* a heartbeat that passes a message to log_dispatch
HeartbeatTickWithText ==
  /\ hb = "running"
  /\ ticks < MaxTicks
  /\ ticks' = ticks + 1
  /\ log_q' = LogDispatch(log_q, "debug", "keepalive", "keepalive", TRUE, FALSE, NoBox, NoBox)
  /\ UNCHANGED <<jobVars, opc, hb, cookie_file, pkgVars, beltVars, shipVars>>

\* heartbeat: one keepalive per tick, dispatched with a debug context
HeartbeatTick ==
  /\ hb = "running"
  /\ ticks < MaxTicks
  /\ ticks' = ticks + 1
  /\ log_q' = LogDispatch(log_q, "debug", "keepalive", "keepalive", FALSE, FALSE, NoBox, NoBox)
  /\ UNCHANGED <<jobVars, opc, hb, cookie_file, pkgVars, beltVars, shipVars>>

\* ------------------------------------------------------------------------
\* run_format_listing (worker thread)
\* ------------------------------------------------------------------------
ListingRun ==
  /\ ppc = "listing"
  /\ \E popen_ok \in BOOLEAN :
       LET q1 == Status(Status(log_q, "status"), "status") IN
       log_q' = IF popen_ok THEN Status(q1, "status")
                ELSE LogDispatch(q1, mode, "error", "list_error", TRUE, FALSE, NoBox, NoBox)
  /\ ppc' = "listed"
  /\ UNCHANGED <<jobVars, orchVars, target_split, threshold, child, in_container,
                 buffer, box_id, pos, demuxed, sealed, ended, beltVars, shipVars>>

\* ------------------------------------------------------------------------
\* run_packager (worker thread)
\* ------------------------------------------------------------------------
\* except Exception: pass
PackagerErrorSilent(q) == q

PackagerError(q) == LogDispatch(q, mode, "error", "packager_error", TRUE, FALSE, NoBox, NoBox)

\* lines 69-104: command line, split policy, first status lines
PackagerSetup ==
  /\ ppc = "start"
  /\ IF SplitRaises(total_duration, split_duration)
     THEN /\ ppc' = "raised"
          /\ UNCHANGED <<target_split, threshold, log_q>>
     ELSE /\ ppc' = "spawn"
          /\ target_split' = TargetSplit(total_duration, split_duration)
          /\ threshold' = Threshold(total_duration, split_duration)
          /\ log_q' = IF Balanced(total_duration, BaseSplitSeconds(split_duration))
                      THEN Status(Status(log_q, "status"), "status")
                      ELSE Status(log_q, "status")
  /\ UNCHANGED <<jobVars, orchVars, child, in_container, buffer, box_id, pos,
                 demuxed, sealed, ended, beltVars, shipVars>>

SpawnOutcomes == {"spawned", "popen_failed", "thread_failed"}

\* subprocess.Popen and the start of the stderr monitor thread (lines 106-109),
\* outside the try block
PackagerSpawn ==
  /\ ppc = "spawn"
  /\ \E outcome \in SpawnOutcomes :
       /\ child' = IF outcome = "spawned"
                    THEN [child EXCEPT !.st = "alive", !.monitor = TRUE]
                    ELSE IF outcome = "thread_failed"
                    THEN [child EXCEPT !.st = "alive"]
                    ELSE child
       /\ ppc' = IF outcome = "spawned" THEN "connect" ELSE "raised"
  /\ UNCHANGED <<jobVars, orchVars, log_q, target_split, threshold, in_container,
                 buffer, box_id, pos, demuxed, sealed, ended, beltVars, shipVars>>

ConnectOutcomes == {"connected", "exited", "open_failed", "no_audio"}

\* lines 113-122: poll, av.open, streams.audio[0]
PackagerConnect ==
  /\ ppc = "connect"
  /\ \E outcome \in ConnectOutcomes :
       /\ child' = IF outcome = "exited" THEN [child EXCEPT !.st = "exited"] ELSE child
       /\ in_container' = IF outcome \in {"connected", "no_audio"} THEN "open" ELSE in_container
       /\ IF outcome = "connected"
          THEN /\ log_q' = Status(log_q, "status")
               /\ ppc' = "demux" /\ ended' = ended
          ELSE /\ log_q' = PackagerError(log_q)
               /\ ppc' = "finally" /\ ended' = outcome
  /\ buffer' = <<>> /\ box_id' = 0
  /\ UNCHANGED <<jobVars, orchVars, target_split, threshold, pos, demuxed, sealed,
                 beltVars, shipVars>>

\* a packet whose dts is None: skipped
DemuxSkip ==
  /\ ppc = "demux"
  /\ feed.nones
  /\ pos.n < feed.max
  /\ pos' = [pos EXCEPT !.n = pos.n + 1]
  /\ UNCHANGED <<jobVars, orchVars, log_q, ppc, target_split, threshold, child,
                 in_container, buffer, box_id, demuxed, sealed, ended, beltVars, shipVars>>

NextDts == IF pos.any THEN {pos.last + d : d \in feed.deltas} ELSE feed.firsts

\* one iteration of the demux loop for a packet with a dts (lines 123-135)
DemuxPacket ==
  /\ ppc = "demux"
  /\ pos.n < feed.max
  /\ \E d \in NextDts, lag \in feed.lags, mux_ok \in BOOLEAN :
       LET pkt == [id |-> pos.n + 1, dts |-> d, pts |-> d + lag]
           buf == Append(buffer, pkt)
           pack == CreatePackage(buf, target_split)
           cargo == Cargo(pack.mem, box_id, pack.size)
       IN /\ pos' = [n |-> pos.n + 1, last |-> d, any |-> TRUE]
          /\ demuxed' = Append(demuxed, pkt)
          /\ IF ~CurrDurReached(pkt.dts, buf[1].dts, threshold)
             THEN /\ mux_ok
                  /\ buffer' = buf
                  /\ UNCHANGED <<log_q, submitted, box_id, sealed, ppc, ended>>
             ELSE IF mux_ok
             THEN /\ log_q' = Status(log_q, "status")
                  /\ submitted' = Append(submitted, cargo)
                  /\ sealed' = Append(sealed, cargo)
                  /\ buffer' = CarryOver(pack.packets, pack.cutoff)
                  /\ box_id' = NextBoxId(box_id)
                  /\ UNCHANGED <<ppc, ended>>
             ELSE /\ log_q' = PackagerError(Status(log_q, "status"))
                  /\ buffer' = buf
                  /\ ppc' = "finally" /\ ended' = "error"
                  /\ UNCHANGED <<submitted, box_id, sealed>>
  /\ UNCHANGED <<jobVars, orchVars, target_split, threshold, child, in_container,
                 conveyor, shipVars>>

\* an except clause that still seals what is buffered
DemuxErrorSealsBuffer ==
  /\ ppc = "demux"
  /\ log_q' = PackagerError(log_q)
  /\ ppc' = "finally" /\ ended' = "error"
  /\ IF buffer = <<>>
     THEN UNCHANGED <<submitted, sealed>>
     ELSE LET pack == CreatePackage(buffer, DurInf)
              cargo == Cargo(pack.mem, box_id, pack.size)
          IN /\ submitted' = Append(submitted, cargo)
             /\ sealed' = Append(sealed, cargo)
  /\ UNCHANGED <<jobVars, orchVars, target_split, threshold, child, in_container,
                 buffer, box_id, pos, demuxed, conveyor, shipVars>>

\* in_container.demux raises mid-stream
DemuxError ==
  /\ ppc = "demux"
  /\ log_q' = PackagerError(log_q)
  /\ ppc' = "finally" /\ ended' = "error"
  /\ UNCHANGED <<jobVars, orchVars, target_split, threshold, child, in_container,
                 buffer, box_id, pos, demuxed, sealed, beltVars, shipVars>>

EndAllowed == feed.anyEnd \/ (pos.any /\ pos.last \in feed.ends)

\* an end of stream that forgets what is buffered
DemuxEndDropsBuffer ==
  /\ ppc = "demux"
  /\ EndAllowed
  /\ ended' = "eos"
  /\ ppc' = "finally"
  /\ UNCHANGED <<jobVars, orchVars, log_q, target_split, threshold, child,
                 in_container, buffer, box_id, pos, demuxed, sealed, beltVars, shipVars>>

\* end of stream: the final box (lines 137-141)
DemuxEnd ==
  /\ ppc = "demux"
  /\ EndAllowed
  /\ \E mux_ok \in (IF buffer = <<>> THEN {TRUE} ELSE BOOLEAN) :
       LET pack == CreatePackage(buffer, DurInf)
           cargo == Cargo(pack.mem, box_id, pack.size)
       IN IF buffer = <<>>
          THEN /\ ended' = "eos"
               /\ UNCHANGED <<log_q, submitted, sealed>>
          ELSE IF mux_ok
          THEN /\ log_q' = Status(log_q, "status")
               /\ submitted' = Append(submitted, cargo)
               /\ sealed' = Append(sealed, cargo)
               /\ ended' = "eos"
          ELSE /\ log_q' = PackagerError(Status(log_q, "status"))
               /\ ended' = "error"
               /\ UNCHANGED <<submitted, sealed>>
  /\ ppc' = "finally"
  /\ UNCHANGED <<jobVars, orchVars, target_split, threshold, child, in_container,
                 buffer, box_id, pos, demuxed, conveyor, shipVars>>

\* a finally block that puts the sentinel on the queue from the worker thread
PackagerTeardownDirectPut ==
  /\ ppc = "finally"
  /\ in_container' = IF in_container = "open" THEN "closed" ELSE in_container
  /\ child' = [child EXCEPT !.st = "exited", !.stdout_closed = TRUE,
                            !.stderr_closed = TRUE]
  /\ conveyor' = Append(conveyor, NoneItem)
  /\ ppc' = "done"
  /\ UNCHANGED <<jobVars, orchVars, log_q, target_split, threshold, buffer, box_id,
                 pos, demuxed, sealed, ended, submitted, shipVars>>

\* the finally block (lines 144-155)
PackagerTeardown ==
  /\ ppc = "finally"
  /\ in_container' = IF in_container = "open" THEN "closed" ELSE in_container
  /\ \E close_raises \in BOOLEAN, exited_now \in BOOLEAN, in_grace \in BOOLEAN :
       IF close_raises
       THEN /\ ppc' = "raised"
            /\ UNCHANGED <<child, submitted>>
       ELSE /\ child' =
                 IF child.st = "alive" /\ ~exited_now
                 THEN [child EXCEPT !.st = "exited", !.stdout_closed = TRUE,
                                    !.stderr_closed = TRUE, !.terminated = TRUE,
                                    !.killed = ~in_grace]
                 ELSE [child EXCEPT !.st = "exited", !.stdout_closed = TRUE,
                                    !.stderr_closed = TRUE]
            /\ submitted' = Append(submitted, NoneItem)
            /\ ppc' = "done"
  /\ UNCHANGED <<jobVars, orchVars, log_q, target_split, threshold, buffer, box_id,
                 pos, demuxed, sealed, ended, conveyor, shipVars>>

\* ------------------------------------------------------------------------
\* miner_log_monitor (daemon thread on the child's stderr)
\* ------------------------------------------------------------------------
StderrLines == {"blank", "progress", "progress_throttled", "error", "other"}

\* a monitor that forwards error lines in data mode too
MinerDispatchDataErrors(q, m, line) ==
  IF line \in {"blank", "progress_throttled"} THEN q
  ELSE IF line = "error"
  THEN LogDispatch(q, m, "error", "miner_error", TRUE, FALSE, NoBox, NoBox)
  ELSE IF m = "data" THEN q
  ELSE LogDispatch(q, m, "status", "miner", TRUE, FALSE, NoBox, NoBox)

\* what one stderr line puts on the event queue
MinerDispatch(q, m, line) ==
  IF m = "data" \/ line \in {"blank", "progress_throttled"} THEN q
  ELSE IF line = "error"
  THEN LogDispatch(q, m, "error", "miner_error", TRUE, FALSE, NoBox, NoBox)
  ELSE LogDispatch(q, m, "status", "miner", TRUE, FALSE, NoBox, NoBox)

\* one pipe.readline() that returns a line
MinerLine ==
  /\ child.monitor
  /\ ~child.stderr_closed
  /\ child.pending = "none"
  /\ child.stderr_lines < MaxStderrLines
  /\ \E line \in StderrLines :
       child' = [child EXCEPT !.stderr_lines = @ + 1, !.pending = line]
  /\ UNCHANGED <<jobVars, orchVars, log_q, ppc, target_split, threshold, in_container,
                 buffer, box_id, pos, demuxed, sealed, ended, beltVars, shipVars>>

\* the body of the loop for the line just read; the thread is never joined,
\* so this runs whenever the thread is scheduled
MinerForward ==
  /\ child.pending # "none"
  /\ log_q' = MinerDispatch(log_q, mode, child.pending)
  /\ child' = [child EXCEPT !.pending = "none"]
  /\ UNCHANGED <<jobVars, orchVars, ppc, target_split, threshold, in_container,
                 buffer, box_id, pos, demuxed, sealed, ended, beltVars, shipVars>>

\* ------------------------------------------------------------------------
\* The event loop runs a submitted conveyor_belt.put
\* ------------------------------------------------------------------------
\* a conveyor that hands out the newest item first
LoopPutFront ==
  /\ submitted # <<>>
  /\ conveyor' = <<Head(submitted)>> \o conveyor
  /\ submitted' = Tail(submitted)
  /\ UNCHANGED <<jobVars, orchVars, log_q, pkgVars, shipVars>>

LoopPut ==
  /\ submitted # <<>>
  /\ conveyor' = Append(conveyor, Head(submitted))
  /\ submitted' = Tail(submitted)
  /\ UNCHANGED <<jobVars, orchVars, log_q, pkgVars, shipVars>>


\* ------------------------------------------------------------------------
\* ship_cargo
\* ------------------------------------------------------------------------
Responses == {"ok", "http_error", "exception"}

\* the status branch without its return: the asset event follows the error
ShipEventsNoReturn(q, m, cargo, resp) ==
  IF resp = "http_error"
  THEN LogDispatch(
         LogDispatch(q, m, "error", "upload_failed", TRUE, TRUE, cargo.index, cargo.index),
         m, "asset", "delivered", TRUE, TRUE, cargo.index, cargo.index)
  ELSE IF resp = "ok"
  THEN LogDispatch(q, m, "asset", "delivered", TRUE, TRUE, cargo.index, cargo.index)
  ELSE LogDispatch(q, m, "error", "shipper_error", TRUE, TRUE, cargo.index, NoBox)

\* an except clause that swallows the exception without an event
ShipEventsSilent(q, m, cargo, resp) ==
  IF resp = "http_error"
  THEN LogDispatch(q, m, "error", "upload_failed", TRUE, TRUE, cargo.index, cargo.index)
  ELSE IF resp = "ok"
  THEN LogDispatch(q, m, "asset", "delivered", TRUE, TRUE, cargo.index, cargo.index)
  ELSE q

\* lines 193-203: the event of one upload, by what the provider answered
ShipEvents(q, m, cargo, resp) ==
  IF resp = "http_error"
  THEN LogDispatch(q, m, "error", "upload_failed", TRUE, TRUE, cargo.index, cargo.index)
  ELSE IF resp = "ok"
  THEN LogDispatch(q, m, "asset", "delivered", TRUE, TRUE, cargo.index, cargo.index)
  ELSE LogDispatch(q, m, "error", "shipper_error", TRUE, TRUE, cargo.index, NoBox)

BufferClosesOnSuccess(resp) == IF resp = "ok" THEN 1 ELSE 0

\* finally: cargo.buffer.close(), once whatever the response
BufferCloses(resp) == 1

DeepgramAssetsBase == "https://manage.deepgram.com/storage/assets/"

Truthy(v) == v \notin {Absent, Empty}

\* the Deepgram reference without the storage base URL
AssetUrlNoBase(prov, body) ==
  IF prov = "assemblyai"
  THEN [base |-> "", ref |-> IF body.upload_url = Absent THEN "" ELSE body.upload_url]
  ELSE [base |-> "",
        ref |-> IF Truthy(body.asset_id) THEN body.asset_id
                ELSE IF Truthy(body.asset) THEN body.asset
                ELSE IF Truthy(body.id) THEN body.id
                ELSE "unknown"]

\* asset_url (line 200): base and ref are the two parts of the string
AssetUrl(prov, body) ==
  IF prov = "assemblyai"
  THEN [base |-> "", ref |-> IF body.upload_url = Absent THEN "" ELSE body.upload_url]
  ELSE [base |-> DeepgramAssetsBase,
        ref |-> IF Truthy(body.asset_id) THEN body.asset_id
                ELSE IF Truthy(body.asset) THEN body.asset
                ELSE IF Truthy(body.id) THEN body.id
                ELSE "unknown"]

NoPayload ==
  [index |-> NoBox, asset |-> [base |-> "", ref |-> ""], provider |-> "", size_mb |-> 0]

\* payload of the asset event (line 201)
AssetPayload(prov, cargo, body) ==
  [index |-> cargo.index, asset |-> AssetUrl(prov, body), provider |-> prov,
   size_mb |-> cargo.size]

\* with an unknown provider url is "" and session.post raises
ResponsesOf(prov) ==
  IF prov \in {"assemblyai", "deepgram"} THEN Responses ELSE {"exception"}

NewTask(cargo) ==
  [cargo |-> cargo, st |-> "created", resp |-> "none", closes |-> 0, posts |-> 0,
   body |-> NoBody, payload |-> NoPayload]

\* one ship_cargo task, from seek(0) and session.post to the response (or the
\* exception) and finally: cargo.buffer.close()
ShipCargo(k) ==
  /\ tasks[k].st = "created"
  /\ \E resp \in ResponsesOf(provider), body \in bodies :
       /\ log_q' = ShipEvents(log_q, mode, tasks[k].cargo, resp)
       /\ tasks' = [tasks EXCEPT
            ![k].st = "done", ![k].resp = resp,
            ![k].closes = @ + BufferCloses(resp),
            ![k].posts = @ + 1,
            ![k].body = IF resp = "ok" THEN body ELSE NoBody,
            ![k].payload = IF resp = "ok"
                           THEN AssetPayload(provider, tasks[k].cargo, body)
                           ELSE NoPayload]
  /\ UNCHANGED <<jobVars, orchVars, pkgVars, beltVars, spc, dequeued, active_shipments>>

\* ------------------------------------------------------------------------
\* run_shipper
\* ------------------------------------------------------------------------
ShipperStart ==
  /\ spc = "created"
  /\ log_q' = Status(log_q, "status")
  /\ spc' = "get"
  /\ UNCHANGED <<jobVars, orchVars, pkgVars, beltVars, dequeued, tasks, active_shipments>>

\* [x for x in active_shipments if x.done()]
PruneKeepsDone(active, ts) == SelectSeq(active, LAMBDA k : ts[k].st = "done")

\* [x for x in active_shipments if not x.done()]
Prune(active, ts) == SelectSeq(active, LAMBDA k : ts[k].st # "done")

AfterSentinelNoWait(active) == "done"

\* after the sentinel: wait for what is left in active_shipments, or return
AfterSentinel(active) == IF active # <<>> THEN "gather" ELSE "done"

\* one turn of the while loop: cargo = await conveyor_belt.get()
ShipperGet ==
  /\ spc = "get"
  /\ conveyor # <<>>
  /\ LET cargo == Head(conveyor) IN
       /\ conveyor' = Tail(conveyor)
       /\ dequeued' = Append(dequeued, cargo)
       /\ IF cargo.kind = "none"
          THEN /\ spc' = AfterSentinel(active_shipments)
               /\ log_q' = IF active_shipments # <<>> THEN Status(log_q, "status") ELSE log_q
               /\ UNCHANGED <<tasks, active_shipments>>
          ELSE /\ log_q' = Status(log_q, "status")
               /\ tasks' = Append(tasks, NewTask(cargo))
               /\ active_shipments' =
                    Prune(Append(active_shipments, Len(tasks) + 1), tasks')
               /\ spc' = spc
  /\ UNCHANGED <<jobVars, orchVars, pkgVars, submitted>>

\* await asyncio.gather(*active_shipments) returns; the session is closed
ShipperGatherDone ==
  /\ spc = "gather"
  /\ \A i \in 1..Len(active_shipments) : tasks[active_shipments[i]].st = "done"
  /\ spc' = "done"
  /\ UNCHANGED <<jobVars, orchVars, log_q, pkgVars, beltVars, dequeued, tasks,
                 active_shipments>>

\* ------------------------------------------------------------------------
\* Specifications
\* ------------------------------------------------------------------------
Next ==
  \/ FlyStart
  \/ FlyAfterPackager
  \/ FlyFinish
  \/ FlyListingDone
  \/ HeartbeatTick
  \/ ListingRun
  \/ PackagerSetup
  \/ PackagerSpawn
  \/ PackagerConnect
  \/ DemuxSkip
  \/ DemuxPacket
  \/ DemuxError
  \/ DemuxEnd
  \/ PackagerTeardown
  \/ LoopPut
  \/ ShipperStart
  \/ ShipperGet
  \/ ShipperGatherDone
  \/ \E k \in 1..Len(tasks) : ShipCargo(k)

Spec == Init /\ [][Next]_vars


\* The 70-minute scenario: default split (30 min), fixed mode, a source of
\* evenly spaced packets whose last dts is one step short of, or exactly at,
\* SourceSpan.
Init70 ==
  /\ mode = "data"
  /\ cookies = FALSE
  /\ total_duration = 0
  /\ split_duration = DefaultSplitDuration
  /\ only_list_formats = FALSE
  /\ \E step \in ScenarioSteps :
       \E last \in {SourceSpan - step, SourceSpan} : feed = ScenarioFeed(step, last)
  /\ OneProvider
  /\ InitRun

Next70 ==
  \/ FlyStart
  \/ FlyAfterPackager
  \/ FlyFinish
  \/ HeartbeatTick
  \/ PackagerSetup
  \/ PackagerSpawn
  \/ PackagerConnect
  \/ DemuxPacket
  \/ DemuxError
  \/ DemuxEnd
  \/ PackagerTeardown
  \/ LoopPut
  \/ ShipperStart
  \/ ShipperGet
  \/ ShipperGatherDone
  \/ \E k \in 1..Len(tasks) : ShipCargo(k)

Spec70 == Init70 /\ [][Next70]_vars


\* A segmentation job together with the stderr monitor thread.
InitMiner ==
  /\ mode \in {"debug", "data"}
  /\ cookies = FALSE
  /\ total_duration = 0
  /\ split_duration \in SplitDurations \ {0}
  /\ only_list_formats = FALSE
  /\ feed = AnyFeed
  /\ OneProvider
  /\ InitRun

NextMiner ==
  \/ FlyStart
  \/ FlyAfterPackager
  \/ FlyFinish
  \/ HeartbeatTick
  \/ PackagerSetup
  \/ PackagerSpawn
  \/ PackagerConnect
  \/ MinerLine
  \/ MinerForward
  \/ DemuxSkip
  \/ DemuxPacket
  \/ DemuxError
  \/ DemuxEnd
  \/ PackagerTeardown
  \/ LoopPut
  \/ ShipperStart
  \/ ShipperGet
  \/ ShipperGatherDone
  \/ \E k \in 1..Len(tasks) : ShipCargo(k)

SpecMiner == InitMiner /\ [][NextMiner]_vars


\* ------------------------------------------------------------------------
\* A second job of the same process: the file operations of its run_fly_process
\* ------------------------------------------------------------------------
\* peer.same_name: its uuid4().hex[:8] came out equal to this job's;
\* peer.file: its file exists, when the name is its own
PeerFile == IF peer.same_name THEN cookie_file ELSE peer.file

\* lines 232-236 of the second job (credentials given, the write succeeds)
PeerStart ==
  /\ peer.st = "none"
  /\ \E same \in BOOLEAN :
       /\ peer' = [st |-> "running", same_name |-> same, file |-> ~same]
       /\ cookie_file' = IF same THEN TRUE ELSE cookie_file
  /\ UNCHANGED <<paramVars, opc, hb, ticks, log_q, pkgVars, beltVars, shipVars>>

\* lines 252-254 of the second job
PeerFinish ==
  /\ peer.st = "running"
  /\ peer' = [peer EXCEPT !.st = "over", !.file = FALSE]
  /\ cookie_file' = IF peer.same_name THEN FALSE ELSE cookie_file
  /\ UNCHANGED <<paramVars, opc, hb, ticks, log_q, pkgVars, beltVars, shipVars>>

InitPeer ==
  /\ mode = "data"
  /\ cookies \in BOOLEAN
  /\ total_duration = 0
  /\ split_duration \in SplitDurations \ {0}
  /\ only_list_formats = FALSE
  /\ feed = AnyFeed
  /\ OneProvider
  /\ InitRun

NextPeer ==
  \/ FlyStart
  \/ FlyAfterPackager
  \/ FlyFinish
  \/ HeartbeatTick
  \/ PackagerSetup
  \/ PackagerSpawn
  \/ PackagerConnect
  \/ DemuxSkip
  \/ DemuxPacket
  \/ DemuxError
  \/ DemuxEnd
  \/ PackagerTeardown
  \/ LoopPut
  \/ ShipperStart
  \/ ShipperGet
  \/ ShipperGatherDone
  \/ \E k \in 1..Len(tasks) : ShipCargo(k)
  \/ PeerStart
  \/ PeerFinish

SpecPeer == InitPeer /\ [][NextPeer]_vars


\* Jobs over a range of split policies.
SplitTotals == {0, 1000, 4000, 5400}
SplitMinutes == {1, 5, 30}

InitSplit ==
  /\ mode = "data"
  /\ cookies = FALSE
  /\ total_duration \in SplitTotals
  /\ split_duration \in SplitMinutes
  /\ only_list_formats = FALSE
  /\ feed = AnyFeed
  /\ OneProvider
  /\ InitRun

SpecSplit == InitSplit /\ [][Next70]_vars


\* Balanced jobs on a source of evenly spaced packets that lasts exactly
\* total_duration: <<total_duration, split_duration, packet spacing>>.
BalancedCases == {<<5400, 30, 300>>, <<61, 1, 1>>}

EvenFeed(step, span) ==
  [deltas |-> Ticks({step}), firsts |-> {0}, lags |-> {0},
   nones |-> FALSE, anyEnd |-> FALSE, ends |-> Ticks({span - step}),
   max |-> span \div step]

InitBalanced ==
  /\ mode = "data"
  /\ cookies = FALSE
  /\ only_list_formats = FALSE
  /\ \E c \in BalancedCases :
       /\ total_duration = c[1]
       /\ split_duration = c[2]
       /\ feed = EvenFeed(c[3], c[1])
  /\ OneProvider
  /\ InitRun

SpecBalanced == InitBalanced /\ [][Next70]_vars


\* Fixed and balanced jobs on sources of evenly spaced packets.
InitSteady == Init70 \/ InitBalanced

SpecSteady == InitSteady /\ [][Next70]_vars


\* Data-mode segmentation jobs whose threads and tasks are all scheduled: the
\* orchestrator, the worker thread (a finite source ends or fails), the event
\* loop running submitted puts, the Shipper, and the uploads (each completes
\* or fails).  The heartbeat needs no fairness.
InitLive ==
  /\ mode = "data"
  /\ cookies \in BOOLEAN
  /\ total_duration \in TotalDurations
  /\ split_duration \in SplitDurations
  /\ only_list_formats = FALSE
  /\ feed = AnyFeed
  /\ OneProvider
  /\ InitRun

Fairness ==
  /\ WF_vars(FlyStart \/ FlyAfterPackager \/ FlyFinish)
  /\ WF_vars(PackagerSetup \/ PackagerSpawn \/ PackagerConnect \/ DemuxPacket
               \/ DemuxError \/ DemuxEnd \/ PackagerTeardown)
  /\ WF_vars(LoopPut)
  /\ WF_vars(ShipperStart \/ ShipperGet \/ ShipperGatherDone)
  /\ WF_vars(\E k \in 1..Len(tasks) : ShipCargo(k))

SpecLive == InitLive /\ [][Next70]_vars /\ Fairness


\* Jobs over every provider and every shape of response body.
InitAsset ==
  /\ mode = "data"
  /\ cookies = FALSE
  /\ total_duration = 0
  /\ split_duration \in SplitDurations \ {0}
  /\ only_list_formats = FALSE
  /\ feed = AnyFeed
  /\ provider \in Providers
  /\ bodies = AssetBodies
  /\ InitRun

SpecAsset == InitAsset /\ [][Next70]_vars


\* ------------------------------------------------------------------------
\* Properties
\* ------------------------------------------------------------------------
RECURSIVE CountNone(_)
CountNone(q) ==
  IF q = <<>> THEN 0
  ELSE (IF Head(q).kind = "none" THEN 1 ELSE 0) + CountNone(Tail(q))

RECURSIVE PacketIds(_)
PacketIds(chunks) ==
  IF chunks = <<>> THEN <<>>
  ELSE [i \in 1..Len(Head(chunks).mem) |-> Head(chunks).mem[i].id] \o PacketIds(Tail(chunks))

Ids(packets) == [i \in 1..Len(packets) |-> packets[i].id]

IsPrefix(a, b) == Len(a) <= Len(b) /\ SubSeq(b, 1, Len(a)) = a

SegmenterOver == ppc \in {"done", "raised"}

\* JSON lines of one kind that the ship_cargo task of box i put on the event queue
EventsOf(kind, i) ==
  Cardinality({j \in 1..Len(log_q) :
     log_q[j].fmt = "json" /\ log_q[j].kind = kind /\ log_q[j].task = i})

AssetLines ==
  Cardinality({j \in 1..Len(log_q) : log_q[j].fmt = "json" /\ log_q[j].kind = "asset"})

ClosingSentinels == Cardinality({j \in 1..Len(log_q) : log_q[j] = ClosingSentinel})

AllDelivered == \A k \in 1..Len(tasks) : tasks[k].st = "done" /\ tasks[k].resp = "ok"

\* C1: once the Segmenter is over and the conveyor is drained, the Shipper has
\* dequeued exactly the sealed Cargo values in sealing order followed by one
\* None sentinel; at every moment what it has dequeued is a prefix of that.
C1_ConveyorSequence ==
  /\ IsPrefix(dequeued, Append(sealed, NoneItem))
  /\ (SegmenterOver /\ submitted = <<>> /\ conveyor = <<>>)
       => dequeued = Append(sealed, NoneItem)

\* C2: however segmentation ended, exactly one sentinel has been enqueued for
\* the conveyor queue by the time run_packager is over, and never more than one.
C2_SentinelExactlyOnce ==
  /\ CountNone(submitted \o conveyor \o dequeued) <= 1
  /\ SegmenterOver => CountNone(submitted \o conveyor \o dequeued) = 1

\* C3: no error raises past the Orchestrator, and in the Terminal state the
\* heartbeat is cancelled, the credentials file is gone and the event queue
\* holds exactly one closing sentinel.
C3_TerminalFromEveryPath ==
  /\ opc # "raised"
  /\ opc = "terminal" => (hb = "cancelled" /\ ~cookie_file /\ ClosingSentinels = 1)

\* C4: the indices of the sealed Cargo values, in creation order, are 0, 1, ..., N-1.
C4_IndicesContiguous ==
  \A i \in 1..Len(sealed) : sealed[i].index = i - 1

C4_Witness ==
  /\ ended = "eos"
  /\ Len(sealed) >= 2
  /\ sealed[Len(sealed)].index = Len(sealed) - 1

\* C5: after a normal end of stream the packets of the sealed chunks, taken in
\* index order, are exactly the demuxed packets with a dts, in demux order.
C5_NoPacketLost ==
  ended = "eos" => PacketIds(sealed) = Ids(demuxed)

\* C6: in every sealed chunk each retained packet's dts/pts is its original
\* value minus the first retained packet's original value, so the first
\* retained packet has dts = 0 and pts = 0.
C6_Rebased ==
  \A c \in 1..Len(sealed) :
    LET mem == sealed[c].mem IN
    \A i \in 1..Len(mem) :
      /\ mem[i].dts = mem[i].odts - mem[1].odts
      /\ mem[i].pts = mem[i].opts - mem[1].opts
      /\ (i = 1 => (mem[i].dts = 0 /\ mem[i].pts = 0))

C6_Witness ==
  \E c \in 1..Len(sealed) :
    LET mem == sealed[c].mem IN
    /\ Len(mem) >= 2
    /\ mem[1].odts > 0 /\ mem[1].dts = 0 /\ mem[1].pts = 0
    /\ mem[2].dts > 0 /\ mem[2].dts < mem[2].odts

\* C7 as stated: the 70-minute source ends in three sealed chunks, and three
\* asset events when every upload succeeds.
C7_ThreeChunks ==
  /\ ended = "eos" => Len(sealed) = 3
  /\ (opc = "terminal" /\ ended = "eos" /\ AllDelivered) => AssetLines = 3

SpanTicks == SourceSpan * TimeBaseDen
TargetTicks == BaseSplitSeconds(DefaultSplitDuration) * TimeBaseDen
ChunkFirst(c) == c.mem[1].odts
ChunkLast(c) == c.mem[Len(c.mem)].odts

\* C7 amended: with target 1800 s and tail 600 s the second cut needs a packet
\* 2400 s after the first carried-over packet, i.e. a dts span of 4200 s. A
\* source whose last dts lies less than 4200 s after the first is sealed into
\* two chunks, one of 30 minutes and a final one of 40 minutes (two asset
\* events); only a dts span of 4200 s gives 30 + 30 + a final 10 minutes.
C7_TwoOrThreeChunks ==
  ended = "eos" =>
    IF pos.last < SpanTicks
    THEN /\ Len(sealed) = 2
         /\ ChunkFirst(sealed[1]) = 0 /\ ChunkLast(sealed[1]) < TargetTicks
         /\ ChunkFirst(sealed[2]) = TargetTicks /\ ChunkLast(sealed[2]) = pos.last
         /\ (opc = "terminal" /\ AllDelivered) => AssetLines = 2
    ELSE /\ Len(sealed) = 3
         /\ ChunkFirst(sealed[1]) = 0 /\ ChunkLast(sealed[1]) < TargetTicks
         /\ ChunkFirst(sealed[2]) = TargetTicks /\ ChunkLast(sealed[2]) < 2 * TargetTicks
         /\ ChunkFirst(sealed[3]) = 2 * TargetTicks /\ ChunkLast(sealed[3]) = SpanTicks
         /\ (opc = "terminal" /\ AllDelivered) => AssetLines = 3

C7_Witness ==
  /\ ended = "eos" /\ pos.last < SpanTicks
  /\ opc = "terminal" /\ AllDelivered
  /\ Len(sealed) = 2 /\ AssetLines = 2

\* C8: a finished upload that failed (HTTP status >= 400 or an exception) has
\* exactly one error event and no asset event, and every finished upload that
\* succeeded has exactly one asset event and no error event, whatever happened
\* to the other uploads.
C8_FailureIsolated ==
  \A k \in 1..Len(tasks) :
    LET i == tasks[k].cargo.index IN
    tasks[k].st = "done" =>
      IF tasks[k].resp = "ok"
      THEN EventsOf("asset", i) = 1 /\ EventsOf("error", i) = 0
      ELSE EventsOf("error", i) = 1 /\ EventsOf("asset", i) = 0

C8_Witness ==
  /\ opc = "terminal"
  /\ Len(tasks) = 2
  /\ tasks[1].resp = "http_error" /\ tasks[2].resp = "ok"
  /\ EventsOf("error", 0) = 1 /\ EventsOf("asset", 1) = 1

\* C9: every dequeued Cargo has one ship_cargo task, which posts at most once;
\* a finished task has posted exactly once and emitted exactly one terminal
\* event (asset or error), an unfinished one none; when the job is Terminal and
\* every upload succeeded, the asset events number the chunks sealed.
C9_OneUploadOneEvent ==
  /\ Len(tasks) = Len(dequeued) - CountNone(dequeued)
  /\ \A k \in 1..Len(tasks) :
       LET i == tasks[k].cargo.index
           terminal == EventsOf("asset", i) + EventsOf("error", i)
       IN /\ tasks[k].cargo = dequeued[k]
          /\ IF tasks[k].st = "done"
             THEN tasks[k].posts = 1 /\ terminal = 1
             ELSE tasks[k].posts = 0 /\ terminal = 0
  /\ (opc = "terminal" /\ AllDelivered) => AssetLines = Len(sealed)

C9_Witness ==
  /\ opc = "terminal" /\ AllDelivered
  /\ Len(sealed) = 2 /\ AssetLines = 2
  /\ \E k \in 1..Len(tasks) : tasks[k].posts = 1

\* C10: the final completion status and the closing sentinel are on the event
\* queue only after every dequeued chunk's upload has finished and its
\* terminal event has been put on the queue before them.
Closing(j) == log_q[j] = ClosingSentinel \/ log_q[j].tag = "complete"

C10_ClosingAfterUploads ==
  \A j \in 1..Len(log_q) :
    Closing(j) =>
      /\ Len(tasks) = Len(sealed)
      /\ \A k \in 1..Len(tasks) :
           /\ tasks[k].st = "done"
           /\ \E e \in 1..(j - 1) :
                /\ log_q[e].fmt = "json"
                /\ log_q[e].kind \in {"asset", "error"}
                /\ log_q[e].task = tasks[k].cargo.index

C10_Witness ==
  /\ ClosingSentinels = 1
  /\ Len(tasks) = 2
  /\ Len(active_shipments) = 2

EventKinds == {"status", "asset", "error", "keepalive"}

\* C11: in a data-mode job every line on the event queue is a JSON line of
\* kind asset, error or keepalive (no status line, no text line); log_dispatch
\* with a data context yields exactly one JSON line for those three kinds and
\* nothing for a status event, whatever its text or payload.
C11_DataModeNoStatus ==
  /\ mode = "data" =>
       \A j \in 1..Len(log_q) :
         \/ log_q[j] = ClosingSentinel
         \/ log_q[j].fmt = "json" /\ log_q[j].kind \in {"asset", "error", "keepalive"}
  /\ \A kind \in EventKinds, has_text \in BOOLEAN, has_payload \in BOOLEAN :
       LogDispatch(<<>>, "data", kind, "event", has_text, has_payload, NoBox, NoBox) =
         IF kind = "status" THEN <<>>
         ELSE <<Line("json", kind, "event", NoBox, NoBox)>>

C11_Witness ==
  /\ mode = "data" /\ opc = "terminal"
  /\ \E j \in 1..Len(log_q) : log_q[j].fmt = "json" /\ log_q[j].kind = "asset"
  /\ \E j \in 1..Len(log_q) : log_q[j].fmt = "json" /\ log_q[j].kind = "error"
  /\ \E j \in 1..Len(log_q) : log_q[j].fmt = "json" /\ log_q[j].kind = "keepalive"

TextOf(line) == [line EXCEPT !.fmt = "text"]
JsonOf(line) == [line EXCEPT !.fmt = "json"]

\* C12 as stated: in a debug-mode job every event, of any kind, has its
\* "[KIND] message" text line, which precedes its JSON line.
C12_EveryEventHasText ==
  mode = "debug" =>
    \A j \in 1..Len(log_q) :
      log_q[j].fmt = "json" => \E e \in 1..(j - 1) : log_q[e] = TextOf(log_q[j])

\* C12 amended: in a debug-mode job every event that carries a message (the
\* status, asset and error events) has its text line; an asset or error event
\* also has one JSON line, after its text line; a status event has none; the
\* keepalive, which carries no message, has no text line and is a JSON line
\* only.
C12_TextWhenMessage ==
  mode = "debug" =>
    \A j \in 1..Len(log_q) :
      /\ (log_q[j].fmt = "json" /\ log_q[j].kind # "keepalive")
           => \E e \in 1..(j - 1) : log_q[e] = TextOf(log_q[j])
      /\ (log_q[j].fmt = "text" /\ log_q[j].kind \in {"asset", "error"})
           => \E e \in (j + 1)..Len(log_q) : log_q[e] = JsonOf(log_q[j])
      /\ log_q[j].kind = "keepalive" => log_q[j].fmt = "json"
      /\ log_q[j].kind = "status" => log_q[j].fmt = "text"

C12_Witness ==
  /\ mode = "debug" /\ opc = "terminal"
  /\ \E j \in 1..Len(log_q) : log_q[j].fmt = "json" /\ log_q[j].kind = "keepalive"
  /\ \E j \in 1..Len(log_q) :
       /\ log_q[j].fmt = "text" /\ log_q[j].kind = "asset"
       /\ j < Len(log_q) /\ log_q[j + 1] = JsonOf(log_q[j])
  /\ \E j \in 1..Len(log_q) : log_q[j].fmt = "text" /\ log_q[j].kind = "error"

StartupEndings == {"exited", "open_failed", "no_audio"}

ErrorLines(tag) ==
  Cardinality({j \in 1..Len(log_q) :
     log_q[j].fmt = "json" /\ log_q[j].kind = "error" /\ log_q[j].tag = tag})

\* C13: in both session modes, an exception caught in run_packager has put an
\* error line on the event queue, and so has every upload that failed.
C13_ErrorsSurfaced ==
  /\ ended \in StartupEndings \cup {"error"} => ErrorLines("packager_error") >= 1
  /\ \A k \in 1..Len(tasks) :
       (tasks[k].st = "done" /\ tasks[k].resp # "ok")
         => EventsOf("error", tasks[k].cargo.index) >= 1

C13_Witness ==
  /\ mode = "data"
  /\ ended = "error" /\ ErrorLines("packager_error") = 1
  /\ \E k \in 1..Len(tasks) :
       /\ tasks[k].st = "done" /\ tasks[k].resp = "exception"
       /\ EventsOf("error", tasks[k].cargo.index) = 1

JobOver == opc \in {"terminal", "raised"}

\* C14: the credentials file is written at Init only, when credentials were
\* given, and it is absent once the job is over, both when the job reached
\* Terminal and when it ended on a failure of the Segmenter.
C14_CredentialsLifetime ==
  /\ cookie_file => (cookies /\ opc # "init")
  /\ opc = "terminal" => ~cookie_file
  /\ (opc = "raised" /\ ppc = "raised") => ~cookie_file

\* everything handed to the conveyor so far, oldest first
Belt == dequeued \o conveyor \o submitted

CargoItems(q) == SelectSeq(q, LAMBDA x : x.kind = "cargo")

\* C15: after a mid-stream exception the Segmenter is in or past its teardown,
\* one error event has been emitted, no packet still buffered is in a sealed
\* chunk, the chunks handed to the conveyor are exactly those sealed before
\* the exception, all ahead of the sentinel, and when the job is Terminal each
\* of them has been shipped (its upload is done, with its asset or error event).
C15_ErrorKeepsProgress ==
  ended = "error" =>
    /\ ppc \in {"finally", "done", "raised"}
    /\ ErrorLines("packager_error") = 1
    /\ \A i \in 1..Len(buffer) :
         \A c \in 1..Len(sealed) :
           \A m \in 1..Len(sealed[c].mem) : sealed[c].mem[m].id # buffer[i].id
    /\ CargoItems(Belt) = sealed
    /\ \A i \in 1..(Len(Belt) - 1) : Belt[i].kind = "cargo"
    /\ opc = "terminal" =>
         /\ Len(tasks) = Len(sealed)
         /\ \A k \in 1..Len(tasks) :
              /\ tasks[k].st = "done"
              /\ EventsOf("asset", tasks[k].cargo.index)
                   + EventsOf("error", tasks[k].cargo.index) = 1

C15_Witness ==
  /\ ended = "error" /\ opc = "terminal"
  /\ Len(sealed) = 1 /\ buffer # <<>>
  /\ Len(tasks) = 1 /\ tasks[1].st = "done"
  /\ EventsOf("asset", 0) = 1

AllErrorLines ==
  Cardinality({j \in 1..Len(log_q) : log_q[j].fmt = "json" /\ log_q[j].kind = "error"})

\* C16: when the child had exited at the poll, or the stream has no audio
\* track, the event queue holds exactly one error event and no asset event, no
\* Cargo was handed to the conveyor, and the job does not end on an exception.
C16_StartupErrorReported ==
  ended \in {"exited", "no_audio"} =>
    /\ AllErrorLines = 1
    /\ AssetLines = 0
    /\ sealed = <<>> /\ CargoItems(Belt) = <<>>
    /\ opc # "raised"

\* C17: a failure while closing the handles in run_packager's teardown still
\* leaves one sentinel on the conveyor, and a failure to delete the credentials
\* file still leaves the closing sentinel on the event queue.
C17_CleanupNeverEscalates ==
  /\ (SegmenterOver /\ ended # "no") => CountNone(Belt) = 1
  /\ (JobOver /\ ppc \in {"done", "listed"}) => ClosingSentinels = 1

\* C18: once the child was spawned and run_packager is over, both handles are
\* closed and the child has exited; it was killed only after a terminate, and
\* a child that had exited by itself was neither terminated nor killed.
C18_TeardownOnEveryPath ==
  /\ (SegmenterOver /\ child.st # "none") =>
       /\ child.stdout_closed /\ child.stderr_closed
       /\ child.st = "exited"
       /\ child.killed => child.terminated
  /\ (SegmenterOver /\ ended = "exited") => (~child.terminated /\ ~child.killed)

\* C19: a finished ship_cargo task has closed its Cargo's buffer exactly once,
\* whatever the provider answered, an unfinished one has not closed it, and the
\* Cargo a task holds is the chunk as the Segmenter sealed it.
C19_BufferClosedOnce ==
  \A k \in 1..Len(tasks) :
    /\ tasks[k].closes = (IF tasks[k].st = "done" THEN 1 ELSE 0)
    /\ tasks[k].cargo = sealed[k]

C19_Witness ==
  /\ opc = "terminal" /\ Len(tasks) = 2
  /\ tasks[1].resp = "exception" /\ tasks[1].closes = 1
  /\ tasks[2].resp = "http_error" /\ tasks[2].closes = 1

\* C20: the k-th upload task the Shipper created holds the chunk of index
\* k - 1, and a task exists for every Cargo dequeued, whether or not earlier
\* uploads have finished.
C20_DispatchInCreationOrder ==
  /\ \A k \in 1..Len(tasks) : tasks[k].cargo.index = k - 1
  /\ Len(tasks) = Len(CargoItems(dequeued))
  /\ \A i \in 1..Len(active_shipments) : active_shipments[i] \in 1..Len(tasks)

\* the upload of box 1 has finished and emitted its event while that of box 0
\* is still in flight
C20_Witness ==
  /\ Len(tasks) = 2
  /\ tasks[1].st = "created" /\ tasks[2].st = "done"
  /\ EventsOf("asset", 1) = 1
  /\ EventsOf("asset", 0) + EventsOf("error", 0) = 0

\* C21: a step of the worker thread never changes the conveyor queue; the
\* queue grows only by the event loop running the oldest submitted put, one
\* item at a time, and what was submitted is never lost.
C21_ThreadSafeHandoff ==
  [][/\ pkgVars' # pkgVars => conveyor' = conveyor
     /\ Len(conveyor') > Len(conveyor) =>
          /\ submitted # <<>>
          /\ conveyor' = Append(conveyor, Head(submitted))
          /\ submitted' = Tail(submitted)
     /\ IsPrefix(Belt, Belt')]_vars

C21_Witness ==
  /\ Len(sealed) = 2
  /\ ppc = "finally"
  /\ conveyor = <<sealed[1]>>
  /\ submitted = <<sealed[2]>>

KeepaliveLines ==
  Cardinality({j \in 1..Len(log_q) : log_q[j].kind = "keepalive"})

\* C23: in both session modes the event queue holds exactly one line per
\* heartbeat tick, each a keepalive JSON line, whatever the worker thread and
\* the Shipper are doing.
C23_OneKeepalivePerTick ==
  /\ KeepaliveLines = ticks
  /\ \A j \in 1..Len(log_q) :
       log_q[j].kind = "keepalive" =>
         log_q[j] = Line("json", "keepalive", "keepalive", NoBox, NoBox)

\* a tick while the worker thread is inside the demux loop and the Shipper is
\* suspended on the empty conveyor, in a data-mode job
C23_Witness ==
  /\ mode = "data"
  /\ ticks = MaxTicks /\ KeepaliveLines = MaxTicks
  /\ ppc = "demux" /\ pos.n >= 1
  /\ spc = "get" /\ conveyor = <<>> /\ submitted = <<>>
  /\ Len(tasks) = 1 /\ tasks[1].st = "created"

\* C24: the payload of the asset event of a successful upload carries the
\* index and size of the chunk uploaded and the provider; its asset reference
\* is, for AssemblyAI, the upload_url of the response as it came, and for
\* Deepgram the storage base URL followed by the identifier of the response
\* (asset_id, else asset, else id); the event is on the queue once.
C24_AssetReference ==
  \A k \in 1..Len(tasks) :
    tasks[k].resp = "ok" =>
      LET b == tasks[k].body
          pl == tasks[k].payload
      IN /\ pl.index = tasks[k].cargo.index /\ pl.index = k - 1
         /\ pl.size_mb = tasks[k].cargo.size
         /\ pl.provider = provider /\ provider \in {"assemblyai", "deepgram"}
         /\ (provider = "assemblyai" /\ b.upload_url # Absent)
              => (pl.asset.base = "" /\ pl.asset.ref = b.upload_url)
         /\ provider = "deepgram" =>
              /\ pl.asset.base = "https://manage.deepgram.com/storage/assets/"
              /\ Truthy(b.asset_id) => pl.asset.ref = b.asset_id
              /\ (~Truthy(b.asset_id) /\ Truthy(b.asset)) => pl.asset.ref = b.asset
              /\ (~Truthy(b.asset_id) /\ ~Truthy(b.asset) /\ Truthy(b.id))
                   => pl.asset.ref = b.id
         /\ EventsOf("asset", pl.index) = 1

C24_Witness ==
  /\ provider = "deepgram" /\ opc = "terminal"
  /\ Len(tasks) = 2
  /\ tasks[1].resp = "ok" /\ tasks[1].payload.asset.ref = "a1"
  /\ tasks[2].resp = "ok" /\ tasks[2].payload.asset.ref = "a3"
  /\ tasks[2].payload.index = 1

\* C27: while the second job runs, its credentials file exists: this job
\* reaching Terminal has not deleted it.
C27_NoSharedFile ==
  peer.st = "running" => PeerFile

SetupDone == ppc \in {"spawn", "connect", "demux", "finally", "done"}

\* C25: in fixed mode the threshold is the target duration plus the 600 s
\* tail and the cap of a chunk is the target duration: 2400 s and 1800 s for
\* a 30-minute split.
C25_FixedThreshold ==
  (total_duration = 0 /\ SetupDone) =>
    /\ ~threshold.inf /\ ~target_split.inf
    /\ threshold.n = (split_duration * 60 + 600) * threshold.d
    /\ target_split.n = (split_duration * 60) * target_split.d
    /\ split_duration = 30 =>
         (threshold.n = 2400 * threshold.d /\ target_split.n = 1800 * target_split.d)

C25_Witness ==
  /\ total_duration = 0 /\ split_duration = 30
  /\ ppc = "demux" /\ pos.n >= 1
  /\ threshold = Dur(2400, 1) /\ target_split = Dur(1800, 1)

\* C26: in balanced mode parts = ceil(total_duration / target_duration),
\* target' = total_duration / parts and threshold = target' + 30; target' is
\* at most target_duration; 5400 s at 1800 s gives 3 parts, 1800 s and 1830 s.
C26_BalancedThreshold ==
  (total_duration > 0 /\ SetupDone) =>
    LET base == split_duration * 60
        parts == (total_duration + base - 1) \div base
    IN /\ parts * base >= total_duration /\ (parts - 1) * base < total_duration
       /\ target_split.n * parts = total_duration * target_split.d
       /\ threshold.n * target_split.d =
            (target_split.n + 30 * target_split.d) * threshold.d
       /\ target_split.n <= base * target_split.d
       /\ (total_duration = 5400 /\ split_duration = 30) =>
            /\ parts = 3
            /\ target_split.n = 1800 * target_split.d
            /\ threshold.n = 1830 * threshold.d

C26_Witness ==
  /\ total_duration = 5400 /\ split_duration = 30
  /\ ppc = "demux" /\ pos.n >= 1
  /\ target_split.n = 1800 * target_split.d
  /\ threshold.n = 1830 * threshold.d

\* C28: while the demux loop runs, the sealed chunks followed by the buffer are
\* the demuxed packets in order (a seal moves packets from the front of the
\* buffer into one chunk and leaves every later packet buffered), and every
\* packet of a chunk lies less than the target duration after the chunk's first.
C28_SealAtThreshold ==
  ppc = "demux" =>
    /\ PacketIds(sealed) \o Ids(buffer) = Ids(demuxed)
    /\ \A c \in 1..Len(sealed) :
         \A m \in 1..Len(sealed[c].mem) :
           RelTimeLess(sealed[c].mem[m].odts, sealed[c].mem[1].odts, target_split)
    /\ Len(sealed) = box_id

\* C29: after a normal end of stream with packets still buffered, the last
\* sealed chunk holds exactly the buffered packets, whatever their span, and is
\* the only chunk sealed at the end; with an empty buffer nothing was sealed at
\* the end; every sealed chunk is ahead of the sentinel.
C29_FinalChunk ==
  ended = "eos" =>
    /\ buffer # <<>> =>
         /\ Len(sealed) = box_id + 1
         /\ sealed[Len(sealed)].index = box_id
         /\ PacketIds(<<sealed[Len(sealed)]>>) = Ids(buffer)
    /\ buffer = <<>> => Len(sealed) = box_id
    /\ CargoItems(Belt) = sealed
    /\ \A i \in 1..Len(Belt) : Belt[i].kind = "none" => i = Len(Belt)

C29_Witness ==
  /\ ended = "eos"
  /\ Len(buffer) = 2 /\ Len(sealed) = 1
  /\ ~RelTimeLess(buffer[2].dts, buffer[1].dts, target_split)
  /\ dequeued = <<sealed[1], NoneItem>>

\* stream time a chunk covers: from its first packet to the end of its last
ChunkSpan(c) == ChunkLast(c) - ChunkFirst(c) + CHOOSE d \in feed.deltas : TRUE

\* C30: a balanced job whose source lasts exactly total_duration ends with
\* ceil(total_duration / target_duration) chunks, none of which covers more
\* than target' of stream time.
C30_EvenChunks ==
  (ended = "eos" /\ total_duration > 0) =>
    /\ Len(sealed) = (total_duration + split_duration * 60 - 1) \div (split_duration * 60)
    /\ \A c \in 1..Len(sealed) :
         ChunkSpan(sealed[c]) * target_split.d <= target_split.n * TimeBaseDen

MinerLines == {j \in 1..Len(log_q) : log_q[j].tag \in {"miner", "miner_error"}}

\* C31: handling one stderr line puts nothing on the event queue in data mode,
\* whatever the line; in debug mode it puts nothing (blank or rate-limited
\* line), one status event, or one error event; in data mode the event queue
\* never holds an event of the monitor, and reading a line by itself puts
\* nothing on the queue.
C31_MonitorByMode ==
  /\ [](mode = "data" => MinerLines = {})
  /\ [][child'.stderr_lines # child.stderr_lines => log_q' = log_q]_vars
  /\ [][(child.pending # "none" /\ child'.pending = "none") =>
          IF mode = "data"
          THEN log_q' = log_q
          ELSE \/ log_q' = log_q
               \/ log_q' = Append(log_q, Line("text", "status", "miner", NoBox, NoBox))
               \/ log_q' = log_q \o <<Line("text", "error", "miner_error", NoBox, NoBox),
                                      Line("json", "error", "miner_error", NoBox, NoBox)>>]_vars

C31_Witness ==
  /\ mode = "data"
  /\ child.monitor /\ child.st = "alive" /\ ~child.stderr_closed
  /\ child.stderr_lines = MaxStderrLines /\ child.pending = "none"
  /\ ppc = "demux" /\ Len(buffer) >= 1

\* C32: the closing sentinel is the last item of the event queue.
C32_SentinelLast ==
  \A j \in 1..Len(log_q) : log_q[j] = ClosingSentinel => j = Len(log_q)

\* C33: a step of the worker thread (run_packager, run_format_listing) or of
\* the stderr monitor thread never changes the event queue.
C33_LoopOwnsEventQueue ==
  [][(pkgVars' # pkgVars /\ opc' = opc) => log_q' = log_q]_vars

\* C34: every job eventually puts its closing sentinel on the event queue;
\* the Shipper does not wait on the conveyor for ever, nor the orchestrator on
\* the Shipper.
C34_EventuallyClosed ==
  /\ <>(ClosingSentinels = 1)
  /\ (spc = "get") ~> (spc # "get")
  /\ (opc = "await_shipper") ~> (opc = "terminal" \/ opc = "raised")

\* C35: every packet in the buffer still has the dts and pts it was demuxed
\* with, and a packet is muxed (and so rebased) into at most one chunk.
C35_CarryOverKeepsOriginal ==
  /\ ppc = "demux" =>
       \A i \in 1..Len(buffer) : \E j \in 1..Len(demuxed) : demuxed[j] = buffer[i]
  /\ \A i, j \in 1..Len(PacketIds(sealed)) :
       PacketIds(sealed)[i] = PacketIds(sealed)[j] => i = j

C35_Witness ==
  /\ ppc = "demux" /\ Len(sealed) = 1 /\ Len(buffer) = 1
  /\ Len(sealed[1].mem) >= 1
  /\ sealed[1].mem[1].dts # sealed[1].mem[1].odts
  /\ buffer[1].dts > 0

\* C36: with a positive split duration every sealed chunk holds at least one
\* packet, the buffer is not empty once a chunk was sealed at the threshold,
\* and a stream of at least one packet with a dts that ended normally has
\* its final chunk: N >= 1.
C36_NoEmptyChunk ==
  split_duration > 0 =>
    /\ \A c \in 1..Len(sealed) : Len(sealed[c].mem) >= 1
    /\ (ppc = "demux" /\ Len(sealed) >= 1) => buffer # <<>>
    /\ (ended = "eos" /\ demuxed # <<>>) =>
         /\ Len(sealed) = box_id + 1
         /\ sealed[Len(sealed)].index = box_id
         /\ Len(sealed[Len(sealed)].mem) >= 1

C36_Witness ==
  /\ split_duration > 0 /\ ended = "eos"
  /\ Len(demuxed) = 2
  /\ Len(sealed) = 2 /\ Len(sealed[1].mem) = 1 /\ Len(sealed[2].mem) = 1
  /\ sealed[2].mem[1].id = demuxed[2].id

ActiveSet == {active_shipments[i] : i \in 1..Len(active_shipments)}

\* C37: every upload task the Shipper has created is done or still a member
\* of active_shipments, so the wait after the sentinel covers every upload
\* that is not finished.
C37_PruneKeepsUnfinished ==
  /\ \A k \in 1..Len(tasks) : tasks[k].st = "done" \/ k \in ActiveSet
  /\ spc = "done" => \A k \in 1..Len(tasks) : tasks[k].st = "done"

C37_Witness ==
  /\ spc = "gather" /\ Len(tasks) = 2
  /\ tasks[1].st = "done" /\ tasks[2].st = "created"
  /\ active_shipments = <<2>>

\* consecutive packets are in dts order and less than the target apart
Steady ==
  \A i \in 2..Len(demuxed) :
    /\ demuxed[i].dts >= demuxed[i - 1].dts
    /\ (demuxed[i].dts - demuxed[i - 1].dts) * target_split.d < target_split.n * TimeBaseDen

\* C38: on such a source the span of the buffer after each packet is below the
\* packaging threshold, every sealed chunk spans less than the threshold, and
\* every chunk sealed at the threshold spans less than the target.
C38_SpanBelowThreshold ==
  (Steady /\ SetupDone) =>
    /\ (ppc = "demux" /\ buffer # <<>>) =>
         (buffer[Len(buffer)].dts - buffer[1].dts) * threshold.d < threshold.n * TimeBaseDen
    /\ \A c \in 1..Len(sealed) :
         /\ Len(sealed[c].mem) >= 1
         /\ (ChunkLast(sealed[c]) - ChunkFirst(sealed[c])) * threshold.d
              < threshold.n * TimeBaseDen
         /\ c <= box_id =>
              (ChunkLast(sealed[c]) - ChunkFirst(sealed[c])) * target_split.d
                < target_split.n * TimeBaseDen

\* a fixed job with a chunk sealed at the threshold and a longer final chunk
C38_Witness ==
  /\ Steady /\ total_duration = 0 /\ ended = "eos"
  /\ Len(sealed) = 2 /\ box_id = 1
  /\ ChunkLast(sealed[2]) - ChunkFirst(sealed[2]) > TargetTicks

\* C39: every error event of a failed upload carries the index of the chunk
\* whose upload failed.
C39_UploadErrorNamesChunk ==
  \A j \in 1..Len(log_q) :
    (log_q[j].fmt = "json" /\ log_q[j].kind = "error"
       /\ log_q[j].tag \in {"upload_failed", "shipper_error"}) =>
      /\ log_q[j].box # NoBox
      /\ log_q[j].box = log_q[j].task

====
